---- MODULE Spec2Model ----
(***************************************************************************)
(* A model of the Nexus plot decoder (nex::load: read_header,              *)
(* read_varnames, the record loop with read_vars) and of the summary       *)
(* conversion (nex::ecl_summary, field_smspec) of lib/nexus.               *)
(*                                                                         *)
(* The byte stream is supplied by the environment as the decoder reads     *)
(* it: every read draws the bytes it receives, and the number of bytes     *)
(* the stream still holds, from small sets, so that the behaviours of the  *)
(* model are the decodes of all streams over those sets, truncated at any  *)
(* byte.  Fixed-width tokens are tuples of characters, 32-bit words are    *)
(* tuples of four bytes.                                                   *)
(***************************************************************************)
EXTENDS Integers, Sequences, FiniteSets, TLC

VARIABLES
    pc,            \* position of the decode / conversion
    err,           \* kind of the exception thrown, "" when none
    fn,            \* the function executing: read_header, read_varnames or load
    stream,        \* std::istream: [pos, good]
    th1,           \* read_header: the 12-byte type tag buffer
    us,            \* read_header: the 6-byte unit system buffer
    buf,           \* read_header: std::array< int32_t, 8 > buf
    header,        \* NexusHeader: the 8 integers (<<>> before read_header returns)
    classnames,    \* read_varnames: std::vector< str<8> >
    vars_in_class, \* read_varnames: std::vector< int32_t >
    varnames,      \* std::map< str<8>, std::vector< str<4> > >
    i,             \* read_varnames: loop counter of the per-class loop
    varoff,        \* stream offset at which each class's codes were read
    classname,     \* load: class-name token of the current block
    block,         \* load: [timestep, time, num_items, max_perfs] of the block
    item,          \* load: loop counter i of the instance loop
    nblocks,       \* number of blocks begun
    items,         \* the (timestep, class, instance, block, value array) of every instance decoded
    data,          \* plt.data: std::vector< NexusData >
    keywords,      \* ecl_summary: the keywords added to ecl_sum, in order
    warned,        \* field_smspec: the variables warned about, in order
    smspec_nodes,  \* ecl_summary: std::vector< eclvar >
    timesteps,     \* ecl_summary: std::vector< ecl_sum_tstep_type* >
    node,          \* ecl_summary: position of the loop over smspec_nodes
    tstep_data,    \* the value set at each (timestep record, keyword)
    exceptions,    \* stream.exceptions(): the exception mask of the stream
    g,             \* load: stream_guard g, the mask it holds
    terminated     \* std::terminate was called

vars == << pc, err, fn, stream, th1, us, buf, header, classnames, vars_in_class,
           varnames, i, varoff, classname, block, item, nblocks, items, data,
           keywords, warned, smspec_nodes, timesteps, node, tstep_data,
           exceptions, g, terminated >>

guardVars == << exceptions, g, terminated >>

summaryVars == << keywords, warned, smspec_nodes, timesteps, node, tstep_data >>

(***************************************************************************)
(* Bounds of the model.                                                    *)
(***************************************************************************)
MaxClasses == 2
MaxVars == 2
MaxItems == 2
MaxBlocks == 2

(***************************************************************************)
(* Sequences of bytes.                                                     *)
(***************************************************************************)
Take(s, n) == SubSeq(s, 1, n)
Drop(s, n) == SubSeq(s, n + 1, Len(s))

RECURSIVE Flatten(_)
Flatten(ss) == IF ss = << >> THEN << >> ELSE Head(ss) \o Flatten(Tail(ss))

Zeros(n) == [k \in 1..n |-> 0]

(***************************************************************************)
(* std::istream.  A stream that is not good() reads nothing and leaves the *)
(* buffer alone; failbit is never cleared.  read(buf, n) on a stream that  *)
(* holds g < n more bytes stores those g bytes and sets eofbit|failbit.    *)
(* seekg beyond the end fails on a string buffer and succeeds on a file    *)
(* buffer, where the next read then receives nothing.  The position of a   *)
(* failed stream cannot be observed (tellg() is -1).                       *)
(***************************************************************************)
Stream(p, ok) == [pos |-> IF ok THEN p ELSE -1, good |-> ok]

seekg_beg(s, n) ==
    IF ~s.good THEN {s} ELSE {Stream(n, TRUE), Stream(s.pos, FALSE)}

seekg_cur(s, n) ==
    IF ~s.good THEN {s} ELSE {Stream(s.pos + n, TRUE), Stream(s.pos, FALSE)}

\* the outcomes of k consecutive seekg(n, cur)
RECURSIVE seekg_times(_, _, _)
seekg_times(s, n, k) ==
    IF k = 0 THEN {s}
    ELSE UNION {seekg_times(t, n, k - 1) : t \in seekg_cur(s, n)}

\* the numbers of bytes a stream that holds less than n may still hold
ShortReads(n) == { got \in { 0, n \div 2, n - 1 } : 0 <= got /\ got < n }

\* stream.read(buf, n): `contents` are the n-byte contents the stream may
\* hold at this position, `old` is what the buffer held before the call.
read(s, n, contents, old) ==
    IF ~s.good THEN {[s |-> s, buf |-> old]}
    ELSE {[s |-> Stream(s.pos + n, TRUE), buf |-> c] : c \in contents}
         \cup {[s |-> Stream(s.pos + got, FALSE), buf |-> Take(c, got) \o Drop(old, got)] :
                   c \in contents, got \in ShortReads(n)}

(***************************************************************************)
(* Words.  A word in memory is the tuple of its four bytes in address      *)
(* order.  The host is little-endian: the int32 it holds has the first     *)
(* byte as its least significant; ntohl swaps the bytes.                   *)
(***************************************************************************)
ntohl(w) == << w[4], w[3], w[2], w[1] >>

int32(w) ==
    (IF w[4] >= 128 THEN w[4] - 256 ELSE w[4]) * 16777216
      + w[3] * 65536 + w[2] * 256 + w[1]

\* the k-th int32 of a buffer of bytes, after std::transform( ..., ntoh )
ntoh(bytes, k) == int32(ntohl(SubSeq(bytes, 4 * k - 3, 4 * k)))

negative_unsigned(x) == FALSE
negative(x) == x < 0

\* big-endian encoding of a small non-negative integer (an input of the model)
BE(k) == << 0, 0, k \div 256, k % 256 >>
WNeg == << 128, 0, 0, 0 >>
WLow == << 0, 0, 0, 128 >>

(***************************************************************************)
(* Tokens: fixed-width tuples of bytes (ASCII codes).                      *)
(***************************************************************************)
\* "PLOT  BIN   "
th0 == << 80, 76, 79, 84, 32, 32, 66, 73, 78, 32, 32, 32 >>
\* "STOP    "
stop == << 83, 84, 79, 80, 32, 32, 32, 32 >>
\* "FIELD   ", "WELL    ", "NODE    "
FIELD == << 70, 73, 69, 76, 68, 32, 32, 32 >>
WELL == << 87, 69, 76, 76, 32, 32, 32, 32 >>
NODE == << 78, 79, 68, 69, 32, 32, 32, 32 >>
\* "NETWORK ", "W1      "
NETWORK == << 78, 69, 84, 87, 79, 82, 75, 32 >>
W1 == << 87, 49, 32, 32, 32, 32, 32, 32 >>
\* "QOP ", "WCUT", "PAVG"
QOP == << 81, 79, 80, 32 >>
WCUT == << 87, 67, 85, 84 >>
PAVG == << 80, 65, 86, 71 >>

\* "PLOT  BIN  X", "ECLIPSE     "
TypeTags == { th0, << 80, 76, 79, 84, 32, 32, 66, 73, 78, 32, 32, 88 >>, << 69, 67, 76, 73, 80, 83, 69, 32, 32, 32, 32, 32 >> }

\* "METBAR", "NOUNIT"
METBAR == << 77, 69, 84, 66, 65, 82 >>
UnitTags == { METBAR, << 78, 79, 85, 78, 73, 84 >> }

\* nexus/unit.cpp is not part of the sources at hand: the unit system tags
\* that UnitSystem's constructor accepts ("ENGLIS", "METRIC", "METKG/",
\* "METBAR", "LAB   ")
KnownUnitSystems ==
    { << 69, 78, 71, 76, 73, 83 >>, << 77, 69, 84, 82, 73, 67 >>,
      << 77, 69, 84, 75, 71, 47 >>, METBAR, << 76, 65, 66, 32, 32, 32 >> }

\* what a buffer that was never written may hold
Uninit8 == { stop, FIELD }

(***************************************************************************)
(* State after construction: nex::load is entered with a fresh stream.     *)
(***************************************************************************)
NoBlock == [timestep |-> 0, time |-> 0, num_items |-> 0, max_perfs |-> 0]

\* std::ios::iostate as the set of its bits
goodbit == {}
MaskSet == { goodbit, { "failbit", "badbit" } }

Init ==
    /\ pc = "call"
    /\ exceptions \in MaskSet
    /\ g = goodbit
    /\ terminated = FALSE
    /\ err = ""
    /\ fn = "read_header"
    /\ stream = Stream(0, TRUE)
    /\ th1 \in {th0, Zeros(12)}
    /\ us = Zeros(6)
    /\ buf = Zeros(8)
    /\ header = << >>
    /\ classnames = << >>
    /\ vars_in_class = << >>
    /\ varnames = << >>
    /\ i = 0
    /\ varoff = << >>
    /\ classname = Zeros(8)
    /\ block = NoBlock
    /\ item = 0
    /\ nblocks = 0
    /\ items = << >>
    /\ data = << >>
    /\ keywords = << >>
    /\ warned = << >>
    /\ smspec_nodes = << >>
    /\ timesteps = << >>
    /\ node = 0
    /\ tstep_data = << >>

\* rdstate() of a stream: a failed read or seek has set failbit, a read
\* that met the end of the stream eofbit as well
rdstates(s) == IF s.good THEN { goodbit } ELSE { { "failbit" }, { "eofbit", "failbit" } }

\* ~stream_guard: s.exceptions(mask).  exceptions(mask) sets the mask, then
\* throws std::ios_base::failure if the state of the stream has a bit of
\* it; out of a destructor that is std::terminate.
restore_goodbit(mask) == goodbit
restore(mask) == mask

Leave(s) ==
    /\ exceptions' = restore(g)
    /\ g' = g
    /\ \E st \in rdstates(s) : terminated' = (st \cap exceptions' # {})

Throw(kind, s) ==
    /\ pc' = "error"
    /\ err' = kind
    /\ stream' = s
    /\ Leave(s)

\* entry of load: the guard saves the mask, the mask is cleared
EnterLoad ==
    /\ pc = "call"
    /\ g' = exceptions
    /\ exceptions' = goodbit
    /\ pc' = "tag"
    /\ UNCHANGED << err, fn, stream, th1, us, buf, header, classnames, vars_in_class,
                    varnames, i, varoff, classname, block, item, nblocks, items,
                    data, terminated >>
    /\ UNCHANGED summaryVars

(***************************************************************************)
(* read_header                                                             *)
(***************************************************************************)
TagMismatch(ok, s) == ~ok /\ ~s.good
TagBad(ok, s) == ~ok \/ ~s.good

\* skip 4 bytes, read and verify the type tag.  th1 is not initialised: it
\* holds arbitrary bytes (drawn in Init) where the read stored none.
ReadTypeTag ==
    /\ pc = "tag"
    /\ \E s1 \in seekg_beg(stream, 4) :
       \E r \in read(s1, 12, TypeTags, th1) :
         /\ th1' = r.buf
         /\ IF TagBad(r.buf = th0, r.s)
            THEN Throw("bad_header", r.s)
            ELSE /\ pc' = "unit"
                 /\ stream' = r.s
                 /\ err' = err /\ UNCHANGED guardVars
    /\ UNCHANGED << fn, us, buf, header, classnames, vars_in_class, varnames, i, varoff,
                    classname, block, item, nblocks, items, data >>
    /\ UNCHANGED summaryVars

\* skip the four 6-byte blobs, read the unit system tag, construct UnitSystem
ReadUnitSystem ==
    /\ pc = "unit"
    /\ \E s1 \in seekg_times(stream, 6, 4) :
       \E r \in read(s1, 6, UnitTags, us) :
         /\ us' = r.buf
         /\ IF ~r.s.good
            THEN Throw("unexpected_eof", r.s)
            ELSE IF r.buf \notin KnownUnitSystems
            THEN Throw("unit_system", r.s)
            ELSE /\ pc' = "ints"
                 /\ stream' = r.s
                 /\ err' = err /\ UNCHANGED guardVars
    /\ UNCHANGED << fn, th1, buf, header, classnames, vars_in_class, varnames, i, varoff,
                    classname, block, item, nblocks, items, data >>
    /\ UNCHANGED summaryVars

\* the contents of the 8 header words: the class count first, the others
\* 128, and at most one of the 8 negative
HeaderWords ==
    { Flatten([k \in 1..8 |-> IF k = p THEN WNeg ELSE IF k = 1 THEN BE(n) ELSE WLow]) :
          n \in 0..MaxClasses, p \in 0..8 }

\* skip the blob, read the 8 integers
ReadHeaderInts ==
    /\ pc = "ints"
    /\ \E s1 \in seekg_cur(stream, 530 + 264) :
       \E r \in read(s1, 32, HeaderWords, Zeros(32)) :
         IF ~r.s.good
         THEN /\ Throw("unexpected_eof", r.s)
              /\ buf' = [k \in 1..8 |-> int32(SubSeq(r.buf, 4 * k - 3, 4 * k))]
              /\ UNCHANGED << fn, header >>
         ELSE /\ buf' = [k \in 1..8 |-> ntoh(r.buf, k)]
              /\ IF \E k \in 1..8 : negative(buf'[k])
                 THEN Throw("bad_header", r.s) /\ UNCHANGED << fn, header >>
                 ELSE /\ header' = buf'
                      /\ pc' = "names"
                      /\ fn' = "read_varnames"
                      /\ stream' = r.s
                      /\ err' = err /\ UNCHANGED guardVars
    /\ UNCHANGED << th1, us, classnames, vars_in_class, varnames, i, varoff,
                    classname, block, item, nblocks, items, data >>
    /\ UNCHANGED summaryVars

\* NexusHeader (nexus/util.hpp is not part of the sources at hand): the
\* class count is the first of the 8 integers
num_classes(h) == h[1]

(***************************************************************************)
(* read_varnames                                                           *)
(***************************************************************************)
ClassTokens == { FIELD, WELL }

\* the loop reading k more class names through the one buffer `cn`
RECURSIVE read_classnames(_, _, _, _)
read_classnames(s, cn, names, k) ==
    IF k = 0 THEN {[s |-> s, names |-> names]}
    ELSE UNION { read_classnames(r.s, r.buf, Append(names, r.buf), k - 1) :
                     r \in read(s, 8, ClassTokens, cn) }

\* skip the separator, read the class names
ReadClassNames ==
    /\ pc = "names"
    /\ \E s1 \in seekg_cur(stream, 8) :
       \E u \in Uninit8 :
       \E r \in read_classnames(s1, u, << >>, num_classes(header)) :
         /\ classnames' = r.names
         /\ stream' = r.s
    /\ pc' = "counts"
    /\ UNCHANGED guardVars
    /\ UNCHANGED << err, fn, th1, us, buf, header, vars_in_class, varnames, i, varoff,
                    classname, block, item, nblocks, items, data >>
    /\ UNCHANGED summaryVars

CountWords == { BE(c) : c \in 0..MaxVars } \cup { WNeg }
CountArrays(n) == { Flatten(f) : f \in [1..n -> CountWords] }

\* skip the separator, read the number of variables of every class, skip
\* the separator before the variable names
ReadVarCounts ==
    /\ pc = "counts"
    /\ LET n == num_classes(header) IN
       \E s1 \in seekg_cur(stream, 8) :
       \E r \in read(s1, 4 * n, CountArrays(n), Zeros(4 * n)) :
         LET counts == [k \in 1..n |-> ntoh(r.buf, k)] IN
         IF \E k \in 1..n : negative(counts[k])
         THEN Throw("bad_header", r.s) /\ UNCHANGED << vars_in_class, i >>
         ELSE \E s2 \in seekg_cur(r.s, 8) :
                /\ vars_in_class' = counts
                /\ i' = 0
                /\ pc' = "vars"
                /\ stream' = s2
                /\ err' = err /\ UNCHANGED guardVars
    /\ UNCHANGED << fn, th1, us, buf, header, classnames, varnames, varoff,
                    classname, block, item, nblocks, items, data >>
    /\ UNCHANGED summaryVars

\* the variable codes a class section may hold: the first c of these
VarTokens == << QOP, PAVG, WCUT >>
CodeArrays(c) == { Flatten(Take(VarTokens, c)) }

\* std::map::operator[] followed by an assignment
MapSet(m, key, val) ==
    [k \in DOMAIN m \cup {key} |-> IF k = key THEN val ELSE m[k]]

\* stream.seekg(4, cur) at the head of a class's section
skip_time_varname_sep(s) == UNION { seekg_cur(t, 4) : t \in seekg_cur(s, 8) }
skip_time_varname(s) == seekg_cur(s, 4)

\* one iteration of the per-class loop: skip the time variable name, read
\* the variable codes of class i in one piece and split them, skip the
\* separator
ReadClassVars ==
    /\ pc = "vars"
    /\ i < num_classes(header)
    /\ LET c == vars_in_class[i + 1] IN
       \E s1 \in skip_time_varname(stream) :
       \E r \in read(s1, 4 * c, CodeArrays(c), Zeros(4 * c)) :
       \E s2 \in seekg_cur(r.s, 8) :
         /\ varnames' = MapSet(varnames, classnames[i + 1],
                               [k \in 1..c |-> SubSeq(r.buf, 4 * k - 3, 4 * k)])
         /\ varoff' = Append(varoff, s1.pos)
         /\ stream' = s2
    /\ i' = i + 1
    /\ UNCHANGED guardVars
    /\ UNCHANGED << pc, err, fn, th1, us, buf, header, classnames, vars_in_class,
                    classname, block, item, nblocks, items, data >>
    /\ UNCHANGED summaryVars

\* after the loop: the one check of the stream, and the return
ReturnVarnames ==
    /\ pc = "vars"
    /\ i >= num_classes(header)
    /\ IF ~stream.good
       THEN Throw("unexpected_eof", stream) /\ fn' = fn
       ELSE pc' = "block" /\ fn' = "load" /\ UNCHANGED << err, stream >>
            /\ UNCHANGED guardVars
    /\ UNCHANGED << th1, us, buf, header, classnames, vars_in_class, varnames, i,
                    varoff, classname, block, item, nblocks, items, data >>
    /\ UNCHANGED summaryVars

(***************************************************************************)
(* nex::load: the record loop, and read_vars                               *)
(***************************************************************************)
\* a float is represented by its bit pattern, the int32 that
\* interpret_float copies it from; (int32_t) f truncates towards zero
float_magnitude(bits) ==
    LET e == bits \div 8388608
        m == 8388608 + (bits % 8388608)
    IN  IF e < 127 THEN 0
        ELSE IF e <= 150 THEN m \div (2 ^ (150 - e))
        ELSE m * (2 ^ (e - 150))

float_to_int(bits) ==
    IF bits >= 0 THEN float_magnitude(bits)
    ELSE 0 - float_magnitude((bits + 1073741824) + 1073741824)

\* the big-endian words of the floats 0.0 .. 5.0, and of 2.5
FW(k) == << << 0, 0, 0, 0 >>, << 63, 128, 0, 0 >>, << 64, 0, 0, 0 >>,
            << 64, 64, 0, 0 >>, << 64, 128, 0, 0 >>, << 64, 160, 0, 0 >> >>[k + 1]
F2h == << 64, 32, 0, 0 >>

BlockTokens == ClassTokens \cup { stop }
InstanceTokens == { NETWORK, W1 }
TimestepWords == { FW(1), FW(2) }
TimeWords == { FW(0) }
\* the values an instance may hold: the first w of these
ValueWords == << FW(1), F2h, FW(3) >>

BlockHeaders ==
    { Flatten(<< ts, tm, FW(n), FW(0), FW(1) >>) :
          ts \in TimestepWords, tm \in TimeWords, n \in 0..MaxItems }
ValueArrays(w) == { Flatten(Take(ValueWords, w)) }

NexusData(ts, tm, mp, cn, inst, var, val) ==
    [ timestep |-> ts, time |-> tm, max_perfs |-> mp, classname |-> cn,
      instancename |-> inst, varname |-> var, value |-> val ]

\* read_vars: read one word per variable of the class, append one NexusData
\* per variable
read_vars_from_1(s, d, ts, tm, mp, cn, inst, names) ==
    LET w == Len(names) IN
    { [ s |-> r.s, values |-> r.buf,
        data |-> d \o [k \in 1..(w - 1) |->
                          NexusData(ts, tm, mp, cn, inst, names[k + 1], ntoh(r.buf, k + 1))] ] :
          r \in read(s, 4 * w, ValueArrays(w), Zeros(4 * w)) }

read_vars_backwards(s, d, ts, tm, mp, cn, inst, names) ==
    LET w == Len(names) IN
    { [ s |-> r.s, values |-> r.buf,
        data |-> d \o [k \in 1..w |->
                          NexusData(ts, tm, mp, cn, inst, names[k], ntoh(r.buf, w + 1 - k))] ] :
          r \in read(s, 4 * w, ValueArrays(w), Zeros(4 * w)) }

read_vars(s, d, ts, tm, mp, cn, inst, names) ==
    LET w == Len(names) IN
    { [ s |-> r.s, values |-> r.buf,
        data |-> d \o [k \in 1..w |->
                          NexusData(ts, tm, mp, cn, inst, names[k], ntoh(r.buf, k))] ] :
          r \in read(s, 4 * w, ValueArrays(w), Zeros(4 * w)) }

\* std::map::operator[] of a key: a key not yet in the map is inserted with
\* an empty vector
MapGet(m, key) ==
    IF key \in DOMAIN m THEN m ELSE MapSet(m, key, << >>)

\* std::equal of the token with "STOP    "
is_stop_prefix(tok) == Take(tok, 4) = Take(stop, 4)
is_stop(tok) == tok = stop

\* top of the loop: read the class name; return the plot on the sentinel,
\* else skip the separator and read the five words of the block header.
\* The buffer of read_str is not initialised.
ReadBlock ==
    /\ pc = "block"
    /\ \E u \in Uninit8 :
       \E r \in read(stream, 8,
                     IF nblocks < MaxBlocks THEN BlockTokens ELSE { stop }, u) :
         /\ classname' = r.buf
         /\ IF is_stop(r.buf)
            THEN /\ pc' = "done"
                 /\ stream' = r.s
                 /\ Leave(r.s)
                 /\ UNCHANGED << err, block, item, nblocks >>
            ELSE \E s1 \in seekg_cur(r.s, 8) :
                 \E h \in read(s1, 20, BlockHeaders, Zeros(20)) :
                   IF ~h.s.good
                   THEN Throw("unexpected_eof", h.s)
                          /\ UNCHANGED << block, item, nblocks >>
                   ELSE /\ block' = [ timestep  |-> float_to_int(ntoh(h.buf, 1)),
                                      time      |-> ntoh(h.buf, 2),
                                      num_items |-> float_to_int(ntoh(h.buf, 3)),
                                      max_perfs |-> float_to_int(ntoh(h.buf, 5)) ]
                        /\ item' = 0
                        /\ nblocks' = nblocks + 1
                        /\ pc' = "item"
                        /\ stream' = h.s
                        /\ err' = err /\ UNCHANGED guardVars
    /\ UNCHANGED << fn, th1, us, buf, header, classnames, vars_in_class, varnames,
                    i, varoff, items, data >>
    /\ UNCHANGED summaryVars

\* one iteration of the instance loop.  instancename is not initialised.
ReadInstance ==
    /\ pc = "item"
    /\ item < block.num_items
    /\ \E s1 \in seekg_cur(stream, 8) :
       \E u \in Uninit8 :
       \E n \in read(s1, 8, InstanceTokens, u) :
       \E s2 \in seekg_cur(n.s, 64) :
         LET m == MapGet(varnames, classname) IN
         \E v \in read_vars(s2, data, block.timestep, block.time, block.max_perfs,
                            classname, n.buf, m[classname]) :
           /\ varnames' = m
           /\ data' = v.data
           /\ stream' = v.s
           /\ items' = Append(items, << block.timestep, classname, n.buf, nblocks,
                                      v.values >>)
    /\ item' = item + 1
    /\ UNCHANGED guardVars
    /\ UNCHANGED << pc, err, fn, th1, us, buf, header, classnames, vars_in_class,
                    i, varoff, classname, block, nblocks >>
    /\ UNCHANGED summaryVars

\* after the instance loop: skip the separator, back to the top
EndBlock ==
    /\ pc = "item"
    /\ item >= block.num_items
    /\ \E s1 \in seekg_cur(stream, 8) : stream' = s1
    /\ pc' = "block"
    /\ UNCHANGED guardVars
    /\ UNCHANGED << err, fn, th1, us, buf, header, classnames, vars_in_class,
                    varnames, i, varoff, classname, block, item, nblocks, items, data >>
    /\ UNCHANGED summaryVars

Next ==
    \/ EnterLoad
    \/ ReadTypeTag
    \/ ReadUnitSystem
    \/ ReadHeaderInts
    \/ ReadClassNames
    \/ ReadVarCounts
    \/ ReadClassVars
    \/ ReturnVarnames
    \/ ReadBlock
    \/ ReadInstance
    \/ EndBlock

Spec == Init /\ [][Next]_vars

(***************************************************************************)
(* nexus/util.cpp (is::, cmp::, get::, unique, varnames) is not among the  *)
(* sources at hand; these are modelled from their uses in ecl_summary,     *)
(* field_smspec and the test.                                              *)
(***************************************************************************)
\* a fixed-width token as a string: without its trailing blanks
RECURSIVE Trim(_)
Trim(tok) ==
    IF tok # << >> /\ tok[Len(tok)] = 32 THEN Trim(Take(tok, Len(tok) - 1)) ELSE tok

is_classname(name, nd) == Trim(nd.classname) = name
is_instancename(name, nd) == Trim(nd.instancename) = name
is_varname(name, nd) == Trim(nd.varname) = name
cmp_timestep(x, y) == x.timestep < y.timestep

\* std::string operator<
RECURSIVE str_less(_, _)
str_less(x, y) ==
    IF y = << >> THEN FALSE
    ELSE IF x = << >> THEN TRUE
    ELSE IF x[1] # y[1] THEN x[1] < y[1]
    ELSE str_less(Tail(x), Tail(y))

\* the elements of a set in ascending order
RECURSIVE Ascending(_)
Ascending(S) ==
    IF S = {} THEN << >>
    ELSE LET m == CHOOSE x \in S : \A y \in S : x <= y
         IN  << m >> \o Ascending(S \ {m})

RECURSIVE AscendingStr(_)
AscendingStr(S) ==
    IF S = {} THEN << >>
    ELSE LET m == CHOOSE x \in S : \A y \in S : ~str_less(y, x)
         IN  << m >> \o AscendingStr(S \ {m})

\* unique( plt, get::timestep ), unique( plt, get::time ): the distinct
\* values, sorted.  A time is a float that is not negative: its order is
\* that of its bit pattern.
unique_timestep(d) == Ascending({ d[k].timestep : k \in DOMAIN d })
unique_time(d) == Ascending({ d[k].time : k \in DOMAIN d })

\* varnames( plt, classname ): the distinct variable names of the class
plt_varnames(d, name) ==
    AscendingStr({ Trim(d[k].varname) : k \in { j \in DOMAIN d : is_classname(name, d[j]) } })

(***************************************************************************)
(* nex::ecl_summary and field_smspec.  The summary writer (ecl_sum) is     *)
(* kept as what it is handed: the keywords added, the timestep records     *)
(* created, and the value set at each (timestep record, keyword).          *)
(***************************************************************************)
\* "FIELD", "NETWORK"
strFIELD == Trim(FIELD)
strNETWORK == Trim(NETWORK)

kw_nex2ecl ==
    (<< 81, 79, 80 >> :> "FOPR") @@
    (<< 81, 87, 80 >> :> "FWPR") @@
    (<< 81, 71, 80 >> :> "FGPR") @@
    (<< 71, 79, 82 >> :> "FGOR") @@
    (<< 87, 67, 85, 84 >> :> "FWCT") @@
    (<< 67, 79, 80 >> :> "FOPT") @@
    (<< 67, 87, 80 >> :> "FWPT") @@
    (<< 67, 71, 80 >> :> "FGPT") @@
    (<< 81, 87, 73 >> :> "FWIR") @@
    (<< 81, 71, 73 >> :> "FGIR") @@
    (<< 67, 87, 73 >> :> "FWIT") @@
    (<< 67, 71, 73 >> :> "FGIT") @@
    (<< 81, 80, 80 >> :> "FCPR") @@
    (<< 67, 80, 80 >> :> "FCPC")

\* std::sort( field.begin(), field.end(), cmp::timestep ): std::sort is not
\* stable, the elements that compare equal come out in any order.  The
\* sorted sequences of the elements of seq at the indices S.
RECURSIVE std_sort_from(_, _)
std_sort_from(seq, S) ==
    IF S = {} THEN { << >> }
    ELSE UNION { { << seq[k] >> \o rest : rest \in std_sort_from(seq, S \ {k}) } :
                     k \in { k \in S : \A j \in S : ~cmp_timestep(seq[j], seq[k]) } }

std_sort(seq) == std_sort_from(seq, DOMAIN seq)

eclvar(kw, value, timestep_index) ==
    [ node |-> kw, value |-> value, timestep_index |-> timestep_index ]

\* the timestep_index of the n-th (from 1) of the values of one variable
node_index_from_1(var_values, n) == n
node_index(var_values, n) == n - 1

\* the else branch of the lookup: "Warning: could not convert nexus
\* variable" on std::cerr, nothing added to the summary
warn_and_add(acc, var) ==
    [acc EXCEPT !.warned = Append(@, var), !.keywords = Append(@, "F")]
warn(acc, var) == [acc EXCEPT !.warned = Append(@, var)]

\* the loop over field_class_vars, from the k-th variable on
RECURSIVE smspec_loop(_, _, _, _)
smspec_loop(field, field_class_vars, k, acc) ==
    IF k > Len(field_class_vars) THEN acc
    ELSE LET var == field_class_vars[k] IN
         IF var \in DOMAIN kw_nex2ecl
         THEN LET var_values == SelectSeq(field, LAMBDA nd : is_varname(var, nd))
                  new == [n \in 1..Len(var_values) |->
                             eclvar(kw_nex2ecl[var], var_values[n].value,
                                    node_index(var_values, n))]
              IN  smspec_loop(field, field_class_vars, k + 1,
                              [acc EXCEPT !.keywords = Append(@, kw_nex2ecl[var]),
                                          !.nodes = @ \o new])
         ELSE smspec_loop(field, field_class_vars, k + 1, warn(acc, var))

\* field_smspec: filter, sort, one keyword and its nodes per mapped variable
FieldSmspec ==
    /\ pc = "summary"
    /\ LET fld == SelectSeq(data, LAMBDA nd : is_classname(strFIELD, nd)
                                              /\ is_instancename(strNETWORK, nd))
       IN  \E field \in std_sort(fld) :
             LET r == smspec_loop(field, plt_varnames(data, strFIELD), 1,
                                  [keywords |-> << >>, warned |-> << >>, nodes |-> << >>])
             IN  /\ keywords' = r.keywords
                 /\ warned' = r.warned
                 /\ smspec_nodes' = r.nodes
    /\ pc' = "tsteps"
    /\ UNCHANGED guardVars
    /\ UNCHANGED << err, fn, stream, th1, us, buf, header, classnames,
                    vars_in_class, varnames, i, varoff, classname, block, item,
                    nblocks, items, data, timesteps, node, tstep_data >>

\* what a read beyond the end of nex_times may yield
IndeterminateTimes == { 0, ntoh(FW(5), 1) }

\* nex_times[i] * 86400.f, the product kept as its factors
seconds(days) == [ days |-> days, times |-> 86400 ]

\* one timestep record per distinct timestep index of the plot, with the
\* i-th distinct time of the plot
AddTimesteps ==
    /\ pc = "tsteps"
    /\ LET nex_timesteps == unique_timestep(data)
           nex_times == unique_time(data)
       IN  \E junk \in IndeterminateTimes :
             timesteps' = [n \in 1..Len(nex_timesteps) |->
                             [ report_step |-> n,
                               sim_seconds |-> seconds(IF n <= Len(nex_times)
                                                       THEN nex_times[n] ELSE junk) ]]
    /\ node' = 0
    /\ pc' = "setdata"
    /\ UNCHANGED guardVars
    /\ UNCHANGED << err, fn, stream, th1, us, buf, header, classnames,
                    vars_in_class, varnames, i, varoff, classname, block, item,
                    nblocks, items, data, keywords, warned, smspec_nodes,
                    tstep_data >>

\* one iteration of the loop over smspec_nodes.  timesteps[ index ] beyond
\* the end of the vector is undefined: the write is lost, or the process dies.
SetData ==
    /\ pc = "setdata"
    /\ node < Len(smspec_nodes)
    /\ LET n == smspec_nodes[node + 1] IN
       IF n.timestep_index < Len(timesteps)
       THEN /\ tstep_data' = MapSet(tstep_data, << n.timestep_index, n.node >>, n.value)
            /\ node' = node + 1
            /\ pc' = pc
       ELSE /\ tstep_data' = tstep_data
            /\ \/ node' = node + 1 /\ pc' = pc
               \/ node' = node /\ pc' = "crash"
    /\ UNCHANGED guardVars
    /\ UNCHANGED << err, fn, stream, th1, us, buf, header, classnames,
                    vars_in_class, varnames, i, varoff, classname, block, item,
                    nblocks, items, data, keywords, warned, smspec_nodes,
                    timesteps >>

ReturnSummary ==
    /\ pc = "setdata"
    /\ node >= Len(smspec_nodes)
    /\ pc' = "converted"
    /\ UNCHANGED guardVars
    /\ UNCHANGED << err, fn, stream, th1, us, buf, header, classnames,
                    vars_in_class, varnames, i, varoff, classname, block, item,
                    nblocks, items, data, keywords, warned, smspec_nodes,
                    timesteps, node, tstep_data >>

(***************************************************************************)
(* The plots ecl_summary is applied to: the plots load builds from up to   *)
(* MaxRecords instance records, each in a block of its own.                *)
(***************************************************************************)
MaxRecords == 3
MaxTimestep == 2

SummaryCatalogs ==
    { (FIELD :> c) @@ (WELL :> << QOP >>) :
          c \in { << QOP >>, << QOP, PAVG >>, << QOP, WCUT >> } }

SummaryTimes == { ntoh(FW(0), 1), ntoh(FW(1), 1) }

SummaryRecords ==
    [ timestep : 1..MaxTimestep, time : SummaryTimes,
      who : { << FIELD, NETWORK >>, << FIELD, W1 >>, << WELL, W1 >> } ]

\* the samples read_vars appends for the r-th record; the k-th value of the
\* r-th record is 10 r + k
PlotOf(cat, recs) ==
    Flatten([r \in 1..Len(recs) |->
               [k \in 1..Len(cat[recs[r].who[1]]) |->
                   NexusData(recs[r].timestep, recs[r].time, 1, recs[r].who[1],
                             recs[r].who[2], cat[recs[r].who[1]][k], 10 * r + k)]])

SummaryPlots ==
    { PlotOf(cat, recs) :
          cat \in SummaryCatalogs,
          recs \in UNION { [1..n -> SummaryRecords] : n \in 0..MaxRecords } }

InitSummary ==
    /\ pc = "summary"
    /\ err = ""
    /\ fn = "ecl_summary"
    /\ stream = Stream(0, TRUE)
    /\ th1 = th0
    /\ us = METBAR
    /\ buf = Zeros(8)
    /\ header = Zeros(8)
    /\ classnames = << >>
    /\ vars_in_class = << >>
    /\ varnames = << >>
    /\ i = 0
    /\ varoff = << >>
    /\ classname = stop
    /\ block = NoBlock
    /\ item = 0
    /\ nblocks = 0
    /\ items = << >>
    /\ data \in SummaryPlots
    /\ keywords = << >>
    /\ warned = << >>
    /\ smspec_nodes = << >>
    /\ timesteps = << >>
    /\ node = 0
    /\ tstep_data = << >>
    /\ exceptions = goodbit
    /\ g = goodbit
    /\ terminated = FALSE

NextSummary ==
    \/ FieldSmspec
    \/ AddTimesteps
    \/ SetData
    \/ ReturnSummary

SpecSummary == InitSummary /\ [][NextSummary]_vars

(***************************************************************************)
(* Properties of nex::load                                                 *)
(***************************************************************************)
CatalogKeys == { classnames[k] : k \in DOMAIN classnames }

Triple(d) == << d.timestep, d.classname, d.instancename >>
SamplesOf(t) == { k \in DOMAIN data : Triple(data[k]) = t }
RecordsOf(t) == { k \in DOMAIN items : Take(items[k], 3) = t }

\* C1 (as claimed): a class-name token that is neither the sentinel nor a
\* class of the catalog ends the decode with an error: the instance loop is
\* never entered for such a class, and no plot is returned that holds
\* instances of one.
C1_UnknownClassIsFatal ==
    /\ pc = "item" => classname \in CatalogKeys
    /\ pc = "done" => \A k \in DOMAIN items : items[k][2] \in CatalogKeys

\* C2 (as claimed): once the record stream has run out (a read received
\* less than it asked for), load returns no plot, and the error it ends
\* with is unexpected_eof.
C2_TruncatedStreamFails ==
    (fn = "load" /\ ~stream.good) =>
        /\ pc # "done"
        /\ pc = "error" => err = "unexpected_eof"

\* C3: load returns a plot only from the top of the loop and only when the
\* class-name token it has just read into its buffer equals "STOP    ";
\* every other exit carries an error; when that happens before any block,
\* the plot has no samples.
C3_ReturnsOnlyOnSentinel ==
    [][ /\ (pc' = "done" /\ pc # "done") =>
              /\ pc = "block"
              /\ classname' = stop
              /\ err' = ""
              /\ data' = data
              /\ nblocks = 0 => data' = << >>
        /\ (pc' = "error" /\ pc # "error") => err' # "" ]_vars

C3_Witness ==
    pc = "done" /\ stream.good /\ nblocks = 0 /\ data = << >> /\ classname = stop

\* a stream read to its sentinel in which no block names an instance twice
WellFormed ==
    /\ stream.good
    /\ \A j, k \in DOMAIN items :
           (j # k /\ items[j][4] = items[k][4]) => items[j][3] # items[k][3]

\* C4 (as claimed): in a plot returned for a well-formed stream, the samples
\* that share a sample's (timestep, class, instance) are as many as the
\* variables of the class.
C4_TripleCountIsWidth ==
    (pc = "done" /\ WellFormed) =>
        \A k \in DOMAIN data :
            Cardinality(SamplesOf(Triple(data[k])))
                = Len(varnames[data[k].classname])

\* C4 (amended): the samples that share a sample's (timestep, class,
\* instance) are as many as the variables of the class times the instance
\* records of the stream that carry that triple.
C4_TripleCountIsWidthPerRecord ==
    \A k \in DOMAIN data :
        LET t == Triple(data[k]) IN
        /\ data[k].classname \in DOMAIN varnames
        /\ Cardinality(SamplesOf(t))
               = Len(varnames[data[k].classname]) * Cardinality(RecordsOf(t))

C4_Witness ==
    /\ pc = "done"
    /\ WellFormed
    /\ nblocks = 2
    /\ \E k \in DOMAIN data :
         /\ Cardinality(RecordsOf(Triple(data[k]))) = 2
         /\ Len(varnames[data[k].classname]) = 2
         /\ Cardinality(SamplesOf(Triple(data[k]))) = 4

\* the offsets of the stream at the end of the header, and at the end of the
\* array of variable counts of n classes
HeaderEnd == 4 + 12 + 4 * 6 + 6 + (530 + 264) + 8 * 4
CountsEnd(n) == HeaderEnd + 8 + 8 * n + 8 + 4 * n

\* the bytes of the sections of the first k classes, a section being `sep`
\* bytes of separator before the placeholder, the placeholder, the codes and
\* the trailing separator
RECURSIVE SectionsLen(_, _)
SectionsLen(k, sep) ==
    IF k = 0 THEN 0
    ELSE SectionsLen(k - 1, sep) + sep + 4 + 4 * vars_in_class[k] + 8

\* C5 (as claimed): the section of every class is 8 + 4 + 4*count + 8 bytes,
\* so that the codes of class k are read 8 + 4 bytes after the sections of
\* the classes before it.
C5_EverySectionHasSeparator ==
    fn = "load" =>
        \A k \in DOMAIN varoff :
            varoff[k] = CountsEnd(Len(varoff)) + SectionsLen(k - 1, 8) + 8 + 4

\* C5 (amended): the 8-byte separator is consumed once, before the first
\* class; the section of the first class is 8 + 4 + 4*count + 8 bytes and
\* that of every later class 4 + 4*count + 8 bytes.
C5_OneLeadingSeparator ==
    fn = "load" =>
        /\ Len(varoff) = num_classes(header)
        /\ \A k \in DOMAIN varoff :
               varoff[k] = CountsEnd(Len(varoff)) + 8 + SectionsLen(k - 1, 0) + 4
        /\ (pc = "block" /\ nblocks = 0) =>
               stream.pos = CountsEnd(Len(varoff)) + 8 + SectionsLen(Len(varoff), 0)

C5_Witness ==
    /\ pc = "block"
    /\ nblocks = 0
    /\ Len(varoff) = 2
    /\ vars_in_class = << 2, 1 >>
    /\ varoff[2] - varoff[1] = 4 * 2 + 8 + 4

\* C6 (as claimed): when the stream has run out inside read_varnames, the
\* error is unexpected_eof.
C6_CatalogEofIsUnexpectedEof ==
    (fn = "read_varnames" /\ pc = "error" /\ ~stream.good) => err = "unexpected_eof"

\* C7: when the 12 bytes read at offset 4 are not "PLOT  BIN   ", or the
\* stream ends before they are read, read_header throws bad_header, with
\* the unit system and the integers not yet read; it goes on, at offset 16,
\* only otherwise.
C7_TypeTagGate ==
    [][ (pc = "tag" /\ pc' # "tag") =>
          /\ (th1' # th0 \/ ~stream'.good) =>
                /\ pc' = "error"
                /\ err' = "bad_header"
                /\ us' = Zeros(6)
                /\ buf' = Zeros(8)
                /\ header' = << >>
          /\ (th1' = th0 /\ stream'.good) =>
                pc' = "unit" /\ stream'.pos = 4 + 12 ]_vars

C7_Witness ==
    /\ pc = "error"
    /\ err = "bad_header"
    /\ fn = "read_header"
    /\ stream.good
    /\ th1 # th0
    /\ Take(th1, 11) = Take(th0, 11)

\* C8: every header read_header returns has its 8 integers >= 0; when one
\* of the 8 words is negative read_header throws bad_header, when the
\* stream holds less than the 32 bytes it throws unexpected_eof.
C8_HeaderFieldsNonNegative ==
    /\ [](header # << >> => \A k \in 1..8 : header[k] >= 0)
    /\ [][ (pc = "ints" /\ pc' # "ints") =>
             /\ ~stream'.good =>
                   pc' = "error" /\ err' = "unexpected_eof" /\ header' = << >>
             /\ (stream'.good /\ \E k \in 1..8 : buf'[k] < 0) =>
                   pc' = "error" /\ err' = "bad_header" /\ header' = << >>
             /\ (stream'.good /\ \A k \in 1..8 : buf'[k] >= 0) =>
                   pc' = "names" /\ header' = buf' ]_vars

C8_Witness ==
    /\ pc = "error"
    /\ err = "bad_header"
    /\ fn = "read_header"
    /\ th1 = th0
    /\ stream.good
    /\ \E k \in 2..8 : buf[k] < 0 /\ \A j \in 1..8 : j # k => buf[j] >= 0

\* the catalog entry of a class; a class without one has no variable code
CatalogOf(cn) == IF cn \in DOMAIN varnames THEN varnames[cn] ELSE << >>

\* C15: the plot is empty until the record loop; every decoded instance
\* appends to it one sample per variable code of the class of its block, in
\* catalog order, the k-th with the k-th code and the k-th word of the value
\* array read for the instance, all with the timestep, time and max-perfs of
\* the block and the class and instance names just read; no other step
\* changes the plot.
C15_OneSamplePerCodeInOrder ==
    /\ [](fn # "load" => data = << >>)
    /\ [][ IF pc = "item" /\ item' = item + 1
           THEN LET it == items'[Len(items')]
                    names == CatalogOf(classname)
                IN  /\ Len(items') = Len(items) + 1
                    /\ data' = data \o
                          [k \in 1..Len(names) |->
                              NexusData(block.timestep, block.time, block.max_perfs,
                                        classname, it[3], names[k], ntoh(it[5], k))]
           ELSE data' = data ]_vars

C15_Witness ==
    /\ pc = "done"
    /\ stream.good
    /\ Len(items) = 2
    /\ Len(data) = 4
    /\ items[1][4] = 1 /\ items[2][4] = 2
    /\ data[1].instancename = NETWORK /\ data[3].instancename = W1
    /\ data[3].varname = QOP /\ data[3].value = ntoh(FW(1), 1)
    /\ data[4].varname = PAVG /\ data[4].value = ntoh(F2h, 1)
    /\ data[3].timestep = 2 /\ data[4].timestep = 2

\* C17: the guard holds the mask the stream had when load was entered;
\* from there until load is left the mask of the stream is goodbit; once
\* load is left, with a plot or with any of its errors, the mask is the one
\* the guard holds.
C17_ExceptionMaskRestored ==
    /\ [](pc \notin { "call", "error", "done" } => exceptions = goodbit)
    /\ [](pc \in { "error", "done" } => exceptions = g)
    /\ [][ /\ pc = "call" => g' = exceptions
           /\ pc # "call" => g' = g ]_vars

C17_Witness ==
    /\ pc = "error"
    /\ fn = "load"
    /\ err = "unexpected_eof"
    /\ g = { "failbit", "badbit" }
    /\ exceptions = g

(***************************************************************************)
(* Properties of nex::ecl_summary                                          *)
(***************************************************************************)
\* the samples the conversion converts: class FIELD, instance NETWORK, a
\* variable of the keyword table
Converted ==
    { k \in DOMAIN data : /\ is_classname(strFIELD, data[k])
                          /\ is_instancename(strNETWORK, data[k])
                          /\ Trim(data[k].varname) \in DOMAIN kw_nex2ecl }

\* the position (from 0) of a timestep index in the axis of the plot
AxisPosition(ts) ==
    LET axis == unique_timestep(data)
    IN  (CHOOSE n \in DOMAIN axis : axis[n] = ts) - 1

\* C9 (as claimed): when two converted samples share a timestep index and
\* differ in elapsed time, the conversion creates no timestep record and
\* does not return a summary.
C9_InconsistentTimeAxisFails ==
    (\E j, k \in Converted : /\ data[j].timestep = data[k].timestep
                             /\ data[j].time # data[k].time)
        => (timesteps = << >> /\ pc # "converted")

\* C10 (as claimed): in the summary returned for a plot in which no two
\* converted samples of one variable share a timestep index, the value of
\* every converted sample is the value set for its keyword at the timestep
\* record at the position of the sample's timestep index in the axis.
C10_ValueAtOwnTimestep ==
    ( /\ pc = "converted"
      /\ \A j, k \in Converted :
            (j # k /\ data[j].varname = data[k].varname)
                => data[j].timestep # data[k].timestep )
        => \A k \in Converted :
              LET at == << AxisPosition(data[k].timestep),
                           kw_nex2ecl[Trim(data[k].varname)] >>
              IN  at \in DOMAIN tstep_data /\ tstep_data[at] = data[k].value

\* the samples with class FIELD, instance NETWORK and variable QOP, in the
\* order of the plot
QopSamples ==
    SelectSeq(data, LAMBDA nd : /\ is_classname(strFIELD, nd)
                                /\ is_instancename(strNETWORK, nd)
                                /\ is_varname(<< 81, 79, 80 >>, nd))

\* the arrangements of a sequence of samples in ascending timestep order
AscendingOrders(seq) ==
    LET L == Len(seq)
        perms == { p \in [1..L -> 1..L] :
                      /\ \A a, b \in 1..L : a # b => p[a] # p[b]
                      /\ \A a, b \in 1..L :
                            a < b => seq[p[a]].timestep <= seq[p[b]].timestep }
    IN  { [n \in 1..L |-> seq[p[n]]] : p \in perms }

Filtered ==
    SelectSeq(data, LAMBDA nd : /\ is_classname(strFIELD, nd)
                                /\ is_instancename(strNETWORK, nd))

\* C12 (as claimed): once the time axis is built it holds one timestep
\* record per distinct timestep index of the samples passing the
\* FIELD/NETWORK filter, and none for an index that occurs only in samples
\* of other classes or instances.
C12_AxisOfFilteredSamples ==
    pc \in { "setdata", "converted" } =>
        Len(timesteps) = Len(unique_timestep(Filtered))

\* the variable codes of class FIELD in the plot, those without and those
\* with an entry in the keyword table
FieldCodes ==
    { Trim(data[k].varname) : k \in { j \in DOMAIN data : is_classname(strFIELD, data[j]) } }
UnmappedCodes == FieldCodes \ DOMAIN kw_nex2ecl
MappedCodes == FieldCodes \cap DOMAIN kw_nex2ecl

\* C13: once field_smspec has run, the warnings are exactly the unmapped
\* codes of class FIELD, the keywords are exactly those of the mapped codes,
\* the nodes of every mapped code are the values of all its FIELD/NETWORK
\* samples in an ascending timestep order, numbered from 0, whatever
\* unmapped codes the plot holds; no value is ever set for another keyword,
\* and the conversion dies only in the lookup of a node of a mapped code.
C13_UnmappedCodeIsSkipped ==
    pc \in { "tsteps", "setdata", "converted", "crash" } =>
        /\ Len(warned) = Cardinality(UnmappedCodes)
        /\ { warned[k] : k \in DOMAIN warned } = UnmappedCodes
        /\ Len(keywords) = Cardinality(MappedCodes)
        /\ { keywords[k] : k \in DOMAIN keywords } = { kw_nex2ecl[v] : v \in MappedCodes }
        /\ \A v \in MappedCodes :
              LET series == SelectSeq(smspec_nodes, LAMBDA n : n.node = kw_nex2ecl[v])
                  samples == SelectSeq(Filtered, LAMBDA nd : is_varname(v, nd))
              IN  \E q \in AscendingOrders(samples) :
                     series = [n \in 1..Len(q) |->
                                  eclvar(kw_nex2ecl[v], q[n].value, n - 1)]
        /\ \A key \in DOMAIN tstep_data :
              key[2] \in { kw_nex2ecl[v] : v \in MappedCodes }
        /\ pc = "crash" =>
              \E v \in MappedCodes :
                 Len(SelectSeq(Filtered, LAMBDA nd : is_varname(v, nd))) > Len(timesteps)

C13_Witness ==
    /\ pc = "converted"
    /\ warned = << Trim(PAVG) >>
    /\ keywords = << "FOPR" >>
    /\ Len(Filtered) = 4
    /\ Len(timesteps) = 2
    /\ << 0, "FOPR" >> \in DOMAIN tstep_data
    /\ << 1, "FOPR" >> \in DOMAIN tstep_data

\* the arrangement of a sequence of samples in ascending timestep order in
\* which samples of equal timestep keep their order
StableOrder(seq) ==
    LET L == Len(seq)
        p == CHOOSE f \in [1..L -> 1..L] :
                /\ \A a, b \in 1..L : a # b => f[a] # f[b]
                /\ \A a, b \in 1..L :
                      a < b => \/ seq[f[a]].timestep < seq[f[b]].timestep
                               \/ /\ seq[f[a]].timestep = seq[f[b]].timestep
                                  /\ f[a] < f[b]
    IN  [n \in 1..L |-> seq[p[n]]]

\* C14 (as claimed): once field_smspec has run, the values of the nodes of
\* every mapped code are the values of its FIELD/NETWORK samples in stable
\* ascending timestep order: samples of equal timestep index in the order
\* of the plot.
C14_SortIsStable ==
    pc \in { "tsteps", "setdata", "converted", "crash" } =>
        \A v \in MappedCodes :
            LET series == SelectSeq(smspec_nodes, LAMBDA n : n.node = kw_nex2ecl[v])
                q == StableOrder(SelectSeq(Filtered, LAMBDA nd : is_varname(v, nd)))
            IN  /\ Len(series) = Len(q)
                /\ \A n \in DOMAIN series : series[n].value = q[n].value

\* C16 (as claimed): once field_smspec has run, the timestep_index of every
\* node is smaller than the number of distinct timestep indices of the
\* plot, the number of timestep records, and the conversion never dies in
\* the lookup timesteps[node.timestep_index].
C16_LookupInBounds ==
    pc \in { "tsteps", "setdata", "converted", "crash" } =>
        /\ \A n \in DOMAIN smspec_nodes :
              smspec_nodes[n].timestep_index < Len(unique_timestep(data))
        /\ pc # "crash"

====
